---- MODULE Spec2Model ----
(***************************************************************************)
(* Option<T> (src/src/option/option.ts) and Result<T, E> (exercised by     *)
(* src/src/result/result_test.ts) as a state machine over a heap of        *)
(* container instances.  Every method is an operator from the machine      *)
(* before the call to the completion of the call; every action is one call *)
(* made by a client of the library.                                        *)
(***************************************************************************)
EXTENDS Integers, Sequences, FiniteSets

\* ------------------------------------------------------------------ bounds
\* The heap holds at most MaxHeap container instances (the exported None
\* included); number payloads are 0 .. NumVals-1.
MaxHeap == 3
NumVals == 2

\* -------------------------------------------------------------- JS values
\* A JavaScript value: its typeof tag t, a number n (the number itself, the
\* address of an object, 1/0 for true/false) and a name f (the body of a
\* function, the description of a symbol).
Undefined == [t |-> "undefined", n |-> 0, f |-> ""]
Num(i) == [t |-> "number", n |-> i, f |-> ""]
Bool(b) == [t |-> "boolean", n |-> IF b THEN 1 ELSE 0, f |-> ""]
Ref(a) == [t |-> "object", n |-> a, f |-> ""]
Fn(name) == [t |-> "function", n |-> 0, f |-> name]
Sym(desc) == [t |-> "symbol", n |-> 0, f |-> desc]
Str(chars) == [t |-> "string", n |-> 0, f |-> chars]

\* Mutant: the payload type admits undefined.
NonUndefined_Any == {Num(i) : i \in 0 .. NumVals - 1} \cup {Undefined}

\* type NonUndefined = {} | null: the payloads a client may wrap.
NonUndefined == {Num(i) : i \in 0 .. NumVals - 1}

\* OptionType = { Some: Symbol(":some"), None: Symbol(":none") }
OptionType == [Some |-> Sym(":some"), None |-> Sym(":none")]

\* ------------------------------------------------------------- the machine
\* heap[a] is the instance at address a: its class and its val field (an
\* instance of NoneImpl has no val field: reading it gives undefined).
\* site[a] is the place in the program that allocated heap[a].
\* op, receiver, args: the call made last; completion: how it ended;
\* calls: the callbacks it invoked, in order, each with its argument.
VARIABLES heap, site, op, receiver, args, completion, calls

vars == <<heap, site, op, receiver, args, completion, calls>>

NoError == [name |-> "", message |-> ""]

\* A call's running state: the heap, the allocation sites, the callback log.
Machine(h, s) == [heap |-> h, site |-> s, calls |-> <<>>]

\* `return v`
Return(m, v) ==
    [heap |-> m.heap, site |-> m.site, calls |-> m.calls,
     kind |-> "return", value |-> v, error |-> NoError]

\* `throw new <name>(<message>)`
Throw(m, name, message) ==
    [heap |-> m.heap, site |-> m.site, calls |-> m.calls,
     kind |-> "throw", value |-> Undefined,
     error |-> [name |-> name, message |-> message]]

\* The machine a completion leaves behind.
After(c) == [heap |-> c.heap, site |-> c.site, calls |-> c.calls]

\* `new <cls>(val)` at program place `where`: a fresh instance at the next
\* address.
New(m, cls, val, where) ==
    Return([m EXCEPT !.heap = Append(@, [cls |-> cls, val |-> val]),
                     !.site = Append(@, where)],
           Ref(Len(m.heap) + 1))

\* export const None: NoneOption<any> = new NoneImpl();
\* the first allocation of the module, hence address 1.
NoneAddr == 1

None == Ref(NoneAddr)

\* export function Some(val) { return new SomeImpl(val); }
Some(m, val) == New(m, "SomeImpl", val, "Some")

\* Ok(value) and Err(error): the constructors of Result<T, E>.
Ok(m, val) == New(m, "Ok", val, "Ok")

Err(m, val) == New(m, "Err", val, "Err")

\* ---------------------------------------------------------------- callbacks
\* The functions clients pass in.  On a number x: succ is x => (x + 1) %
\* NumVals; on anything else it gives 0.
Succ(v) == IF v.t = "number" THEN Num((v.n + 1) % NumVals) ELSE Num(0)

\* The body of callback fn run on arg.
Body(m, fn, arg) ==
    CASE fn.f = "id" -> Return(m, arg)
      [] fn.f = "succ" -> Return(m, Succ(arg))
      [] fn.f = "zero" -> Return(m, Num(0))
      [] fn.f = "log" -> Return(m, Undefined)
      [] fn.f = "someSucc" -> Some(m, Succ(arg))
      [] fn.f = "none" -> Return(m, None)
      [] fn.f = "nonZero" ->
            IF arg = Num(0) THEN Return(m, None) ELSE Some(m, arg)
      [] fn.f = "okSucc" -> Ok(m, Succ(arg))
      [] fn.f = "errSucc" -> Err(m, Succ(arg))
      [] fn.f = "okIfZero" ->
            IF arg = Num(0) THEN Ok(m, arg) ELSE Err(m, arg)
      [] OTHER -> Return(m, Undefined)

\* fn(arg): the body runs, and the call is logged with what it returned.
Invoke(m, fn, arg) ==
    LET c == Body(m, fn, arg)
    IN  [c EXCEPT !.calls = Append(@, [f |-> fn.f, arg |-> arg,
                                       ret |-> c.value])]

\* (val) => U
ValueFns == {Fn("id"), Fn("succ"), Fn("zero")}
\* (val) => void
VoidFns == {Fn("log")}
\* (val) => Option<U>
OptionFns == {Fn("someSucc"), Fn("none"), Fn("nonZero")}

\* (val) => Result<U, E>
ResultFns == {Fn("okSucc"), Fn("errSucc"), Fn("okIfZero")}

\* ----------------------------------------------------------------- SomeImpl
SomeImpl_type(m, this) == Return(m, OptionType.Some)

\* Mutant: isSome answers false on Some.
SomeImpl_isSome_False(m, this) == Return(m, Bool(FALSE))

SomeImpl_isSome(m, this) == Return(m, Bool(TRUE))

\* Mutant: isNone answers true on Some.
SomeImpl_isNone_True(m, this) == Return(m, Bool(TRUE))

SomeImpl_isNone(m, this) == Return(m, Bool(FALSE))

\* match(fn) { return fn.some(this.val); }
SomeImpl_match(m, this, some, none) == Invoke(m, some, m.heap[this].val)

\* Mutant: inspect returns a copy of the container.
SomeImpl_inspect_Copy(m, this, fn) ==
    Some(After(Invoke(m, fn, m.heap[this].val)), m.heap[this].val)

\* inspect(fn) { fn(this.val); return this; }
SomeImpl_inspect(m, this, fn) ==
    Return(After(Invoke(m, fn, m.heap[this].val)), Ref(this))

\* Mutant: map stores fn's result in the receiver and returns the receiver.
SomeImpl_map_InPlace(m, this, fn) ==
    LET c == Invoke(m, fn, m.heap[this].val)
    IN  Return([After(c) EXCEPT !.heap[this].val = c.value], Ref(this))

\* Mutant: map wraps the payload without applying fn.
SomeImpl_map_Unapplied(m, this, fn) == Some(m, m.heap[this].val)

\* map(fn) { return Some(fn(this.val)); }
SomeImpl_map(m, this, fn) ==
    LET c == Invoke(m, fn, m.heap[this].val)
    IN  Some(After(c), c.value)

\* Mutant: andThen wraps what fn returned in another Some.
SomeImpl_andThen_Wrapped(m, this, fn) ==
    LET c == Invoke(m, fn, m.heap[this].val)
    IN  Some(After(c), c.value)

\* andThen(fn) { return fn(this.val); }
SomeImpl_andThen(m, this, fn) == Invoke(m, fn, m.heap[this].val)

\* Mutant: or on Some returns the alternative.
SomeImpl_or_Other(m, this, optb) == Return(m, optb)

\* or(_optb) { return this; }
SomeImpl_or(m, this, optb) == Return(m, Ref(this))

\* and(optb) { return optb; }
SomeImpl_and(m, this, optb) == Return(m, optb)

\* unwrapOr(_def) { return this.val; }
SomeImpl_unwrapOr(m, this, def) == Return(m, m.heap[this].val)

\* unwrap() { return this.val; }
SomeImpl_unwrap(m, this) == Return(m, m.heap[this].val)

\* ----------------------------------------------------------------- NoneImpl
NoneImpl_type(m, this) == Return(m, OptionType.None)

NoneImpl_isSome(m, this) == Return(m, Bool(FALSE))

NoneImpl_isNone(m, this) == Return(m, Bool(TRUE))

\* Mutant: match returns none as given, callable or not.
NoneImpl_match_Literal(m, this, some, none) == Return(m, none)

\* match({ none }) { if (typeof none === "function") return none();
\*                   return none; }
NoneImpl_match(m, this, some, none) ==
    IF none.t = "function" THEN Invoke(m, none, Undefined)
    ELSE Return(m, none)

\* inspect(_fn) { return this; }
NoneImpl_inspect(m, this, fn) == Return(m, Ref(this))

\* Mutant: map on None applies fn to the missing val and wraps the result.
NoneImpl_map_Applied(m, this, fn) ==
    LET c == Invoke(m, fn, m.heap[this].val)
    IN  Some(After(c), c.value)

\* map(_fn) { return new NoneImpl<U>(); }
NoneImpl_map(m, this, fn) == New(m, "NoneImpl", Undefined, "NoneImpl.map")

\* andThen(_fn) { return new NoneImpl<U>(); }
NoneImpl_andThen(m, this, fn) ==
    New(m, "NoneImpl", Undefined, "NoneImpl.andThen")

\* or(optb) { return optb; }
NoneImpl_or(m, this, optb) == Return(m, optb)

\* and(_optb) { return new NoneImpl<U>(); }
NoneImpl_and(m, this, optb) == New(m, "NoneImpl", Undefined, "NoneImpl.and")

\* unwrapOr(def) { return def; }
NoneImpl_unwrapOr(m, this, def) == Return(m, def)

\* Mutant: unwrap on None returns the missing val instead of throwing.
NoneImpl_unwrap_Undefined(m, this) == Return(m, m.heap[this].val)

\* unwrap() { throw new ReferenceError("Trying to unwrap None."); }
NoneImpl_unwrap(m, this) ==
    Throw(m, "ReferenceError", "Trying to unwrap None.")

\* ------------------------------------------------- interface Option<T>
\* o.method(...) dispatches on the class of the instance o refers to.
IsSomeImpl(m, this) == m.heap[this].cls = "SomeImpl"

Option_type(m, this) ==
    IF IsSomeImpl(m, this) THEN SomeImpl_type(m, this)
    ELSE NoneImpl_type(m, this)

Option_isSome(m, this) ==
    IF IsSomeImpl(m, this) THEN SomeImpl_isSome(m, this)
    ELSE NoneImpl_isSome(m, this)

Option_isNone(m, this) ==
    IF IsSomeImpl(m, this) THEN SomeImpl_isNone(m, this)
    ELSE NoneImpl_isNone(m, this)

Option_match(m, this, some, none) ==
    IF IsSomeImpl(m, this) THEN SomeImpl_match(m, this, some, none)
    ELSE NoneImpl_match(m, this, some, none)

Option_inspect(m, this, fn) ==
    IF IsSomeImpl(m, this) THEN SomeImpl_inspect(m, this, fn)
    ELSE NoneImpl_inspect(m, this, fn)

Option_map(m, this, fn) ==
    IF IsSomeImpl(m, this) THEN SomeImpl_map(m, this, fn)
    ELSE NoneImpl_map(m, this, fn)

Option_andThen(m, this, fn) ==
    IF IsSomeImpl(m, this) THEN SomeImpl_andThen(m, this, fn)
    ELSE NoneImpl_andThen(m, this, fn)

Option_or(m, this, optb) ==
    IF IsSomeImpl(m, this) THEN SomeImpl_or(m, this, optb)
    ELSE NoneImpl_or(m, this, optb)

Option_and(m, this, optb) ==
    IF IsSomeImpl(m, this) THEN SomeImpl_and(m, this, optb)
    ELSE NoneImpl_and(m, this, optb)

Option_unwrapOr(m, this, def) ==
    IF IsSomeImpl(m, this) THEN SomeImpl_unwrapOr(m, this, def)
    ELSE NoneImpl_unwrapOr(m, this, def)

Option_unwrap(m, this) ==
    IF IsSomeImpl(m, this) THEN SomeImpl_unwrap(m, this)
    ELSE NoneImpl_unwrap(m, this)

\* export function isSome(val) { return val.isSome(); }
isSome(m, val) == Option_isSome(m, val.n)

\* export function isNone(val) { return val.isNone(); }
isNone(m, val) == Option_isNone(m, val.n)

\* ------------------------------------------------------------ Result<T, E>
\* A combinator that leaves a Result "unchanged" hands back the receiver or
\* an equal fresh instance of the same variant; `fresh` says which.
Unchanged(m, this, fresh) ==
    IF fresh THEN New(m, m.heap[this].cls, m.heap[this].val, "unchanged")
    ELSE Return(m, Ref(this))

IsOk(m, this) == m.heap[this].cls = "Ok"

\* map(fn): Ok(fn(value)) if Ok; unchanged Err if Err.
Ok_map(m, this, fn, fresh) ==
    LET c == Invoke(m, fn, m.heap[this].val)
    IN  Ok(After(c), c.value)

Err_map(m, this, fn, fresh) == Unchanged(m, this, fresh)

\* Mutant: mapErr on Ok applies fn to the value.
Ok_mapErr_Applied(m, this, fn, fresh) ==
    LET c == Invoke(m, fn, m.heap[this].val)
    IN  Ok(After(c), c.value)

\* mapErr(fn): Err(fn(error)) if Err; unchanged Ok if Ok.
Ok_mapErr(m, this, fn, fresh) == Unchanged(m, this, fresh)

Err_mapErr(m, this, fn, fresh) ==
    LET c == Invoke(m, fn, m.heap[this].val)
    IN  Err(After(c), c.value)

\* andThen(fn): fn(value) if Ok; unchanged Err if Err.
Ok_andThen(m, this, fn, fresh) == Invoke(m, fn, m.heap[this].val)

\* Mutant: andThen on Err applies fn to the error.
Err_andThen_Applied(m, this, fn, fresh) == Invoke(m, fn, m.heap[this].val)

Err_andThen(m, this, fn, fresh) == Unchanged(m, this, fresh)

\* orElse(fn): fn(error) if Err; unchanged Ok if Ok.
Ok_orElse(m, this, fn, fresh) == Unchanged(m, this, fresh)

Err_orElse(m, this, fn, fresh) == Invoke(m, fn, m.heap[this].val)

Result_map(m, this, fn, fresh) ==
    IF IsOk(m, this) THEN Ok_map(m, this, fn, fresh)
    ELSE Err_map(m, this, fn, fresh)

Result_mapErr(m, this, fn, fresh) ==
    IF IsOk(m, this) THEN Ok_mapErr(m, this, fn, fresh)
    ELSE Err_mapErr(m, this, fn, fresh)

Result_andThen(m, this, fn, fresh) ==
    IF IsOk(m, this) THEN Ok_andThen(m, this, fn, fresh)
    ELSE Err_andThen(m, this, fn, fresh)

Result_orElse(m, this, fn, fresh) ==
    IF IsOk(m, this) THEN Ok_orElse(m, this, fn, fresh)
    ELSE Err_orElse(m, this, fn, fresh)

\* isOk() / isErr(): mutually exclusive predicates.
Ok_isOk(m, this) == Return(m, Bool(TRUE))

Err_isOk(m, this) == Return(m, Bool(FALSE))

Ok_isErr(m, this) == Return(m, Bool(FALSE))

Err_isErr(m, this) == Return(m, Bool(TRUE))

\* ok(): Some(value) if Ok, None if Err.  option.ts exports Some and None
\* but not the class NoneImpl, so the empty Option is the exported None.
Ok_ok(m, this) == Some(m, m.heap[this].val)

Err_ok(m, this) == Return(m, None)

\* err(): Some(error) if Err, None if Ok.
Ok_err(m, this) == Return(m, None)

Err_err(m, this) == Some(m, m.heap[this].val)

\* The string a value turns into inside a message: a number in decimal
\* digits, a string as it is.
Digits == <<"0", "1", "2", "3", "4", "5", "6", "7", "8", "9">>

RECURSIVE Decimal(_)
Decimal(i) ==
    IF i < Len(Digits) THEN Digits[i + 1]
    ELSE Decimal(i \div Len(Digits)) \o Digits[(i % Len(Digits)) + 1]

Stringify(v) ==
    CASE v.t = "number" -> Decimal(v.n)
      [] v.t = "string" -> v.f
      [] v.t = "undefined" -> "undefined"
      [] OTHER -> "[object Object]"

\* unwrap(): value if Ok; fails if Err with a generic error whose message
\* embeds the stringified error (its other wording is not fixed).
Ok_unwrap(m, this) == Return(m, m.heap[this].val)

Err_unwrap(m, this) == Throw(m, "Error", Stringify(m.heap[this].val))

\* unwrapErr(): error if Err; fails if Ok with a generic error whose
\* message embeds the stringified value.
Ok_unwrapErr(m, this) == Throw(m, "Error", Stringify(m.heap[this].val))

Err_unwrapErr(m, this) == Return(m, m.heap[this].val)

\* expect(msg): value if Ok; fails with "<msg>: <stringified error>" if Err.
Ok_expect(m, this, msg) == Return(m, m.heap[this].val)

\* Mutant: expect fails with msg alone.
Err_expect_Bare(m, this, msg) == Throw(m, "Error", msg.f)

Err_expect(m, this, msg) ==
    Throw(m, "Error", msg.f \o ": " \o Stringify(m.heap[this].val))

Result_isOk(m, this) ==
    IF IsOk(m, this) THEN Ok_isOk(m, this) ELSE Err_isOk(m, this)

Result_isErr(m, this) ==
    IF IsOk(m, this) THEN Ok_isErr(m, this) ELSE Err_isErr(m, this)

Result_ok(m, this) ==
    IF IsOk(m, this) THEN Ok_ok(m, this) ELSE Err_ok(m, this)

Result_err(m, this) ==
    IF IsOk(m, this) THEN Ok_err(m, this) ELSE Err_err(m, this)

Result_unwrap(m, this) ==
    IF IsOk(m, this) THEN Ok_unwrap(m, this) ELSE Err_unwrap(m, this)

Result_unwrapErr(m, this) ==
    IF IsOk(m, this) THEN Ok_unwrapErr(m, this) ELSE Err_unwrapErr(m, this)

Result_expect(m, this, msg) ==
    IF IsOk(m, this) THEN Ok_expect(m, this, msg)
    ELSE Err_expect(m, this, msg)

\* The messages clients hand to expect.
ExpectMsgs == {Str("Expected a value"), Str("")}

\* ------------------------------------------------------------------ actions
\* The Option instances a client holds.
Options == {a \in DOMAIN heap : heap[a].cls \in {"SomeImpl", "NoneImpl"}}

Now == Machine(heap, site)

\* The call `name` on `this` with `as` ends as completion c.  Calls that
\* would allocate beyond MaxHeap are not made.
Call(name, this, as, c) ==
    /\ Len(c.heap) <= MaxHeap
    /\ heap' = c.heap
    /\ site' = c.site
    /\ calls' = c.calls
    /\ op' = name
    /\ receiver' = this
    /\ args' = as
    /\ completion' = [kind |-> c.kind, value |-> c.value, error |-> c.error]

CallSome == \E v \in NonUndefined : Call("Some", 0, <<v>>, Some(Now, v))

GetType == \E o \in Options : Call("type", o, <<>>, Option_type(Now, o))

CallIsSome == \E o \in Options : Call("isSome", o, <<>>, Option_isSome(Now, o))

CallIsNone == \E o \in Options : Call("isNone", o, <<>>, Option_isNone(Now, o))

CallMatch ==
    \E o \in Options, some \in ValueFns, none \in ValueFns \cup NonUndefined :
        Call("match", o, <<some, none>>, Option_match(Now, o, some, none))

CallInspect ==
    \E o \in Options, fn \in VoidFns :
        Call("inspect", o, <<fn>>, Option_inspect(Now, o, fn))

CallMap ==
    \E o \in Options, fn \in ValueFns :
        Call("map", o, <<fn>>, Option_map(Now, o, fn))

CallAndThen ==
    \E o \in Options, fn \in OptionFns :
        Call("andThen", o, <<fn>>, Option_andThen(Now, o, fn))

CallOr ==
    \E o \in Options, b \in Options :
        Call("or", o, <<Ref(b)>>, Option_or(Now, o, Ref(b)))

CallAnd ==
    \E o \in Options, b \in Options :
        Call("and", o, <<Ref(b)>>, Option_and(Now, o, Ref(b)))

CallUnwrapOr ==
    \E o \in Options, def \in NonUndefined :
        Call("unwrapOr", o, <<def>>, Option_unwrapOr(Now, o, def))

CallUnwrap == \E o \in Options : Call("unwrap", o, <<>>, Option_unwrap(Now, o))

CallIsSomeFn ==
    \E o \in Options : Call("isSome()", 0, <<Ref(o)>>, isSome(Now, Ref(o)))

CallIsNoneFn ==
    \E o \in Options : Call("isNone()", 0, <<Ref(o)>>, isNone(Now, Ref(o)))

\* The Result instances a client holds.
Results == {a \in DOMAIN heap : heap[a].cls \in {"Ok", "Err"}}

CallOk == \E v \in NonUndefined : Call("Ok", 0, <<v>>, Ok(Now, v))

CallErr == \E e \in NonUndefined : Call("Err", 0, <<e>>, Err(Now, e))

CallResultMap ==
    \E r \in Results, fn \in ValueFns, fresh \in BOOLEAN :
        Call("Result.map", r, <<fn>>, Result_map(Now, r, fn, fresh))

CallResultMapErr ==
    \E r \in Results, fn \in ValueFns, fresh \in BOOLEAN :
        Call("Result.mapErr", r, <<fn>>, Result_mapErr(Now, r, fn, fresh))

CallResultAndThen ==
    \E r \in Results, fn \in ResultFns, fresh \in BOOLEAN :
        Call("Result.andThen", r, <<fn>>, Result_andThen(Now, r, fn, fresh))

CallResultOrElse ==
    \E r \in Results, fn \in ResultFns, fresh \in BOOLEAN :
        Call("Result.orElse", r, <<fn>>, Result_orElse(Now, r, fn, fresh))

CallIsOk == \E r \in Results : Call("Result.isOk", r, <<>>, Result_isOk(Now, r))

CallIsErr ==
    \E r \in Results : Call("Result.isErr", r, <<>>, Result_isErr(Now, r))

CallResultOk == \E r \in Results : Call("Result.ok", r, <<>>, Result_ok(Now, r))

CallResultErr ==
    \E r \in Results : Call("Result.err", r, <<>>, Result_err(Now, r))

CallResultUnwrap ==
    \E r \in Results : Call("Result.unwrap", r, <<>>, Result_unwrap(Now, r))

CallResultUnwrapErr ==
    \E r \in Results :
        Call("Result.unwrapErr", r, <<>>, Result_unwrapErr(Now, r))

CallResultExpect ==
    \E r \in Results, msg \in ExpectMsgs :
        Call("Result.expect", r, <<msg>>, Result_expect(Now, r, msg))

\* The module has been loaded: None exists, nothing has been called.
Init ==
    /\ heap = <<[cls |-> "NoneImpl", val |-> Undefined]>>
    /\ site = <<"None">>
    /\ op = "load"
    /\ receiver = 0
    /\ args = <<>>
    /\ completion = [kind |-> "return", value |-> Undefined, error |-> NoError]
    /\ calls = <<>>

\* A client of Option<T>.
Next ==
    \/ CallSome
    \/ GetType
    \/ CallIsSome
    \/ CallIsNone
    \/ CallMatch
    \/ CallInspect
    \/ CallMap
    \/ CallAndThen
    \/ CallOr
    \/ CallAnd
    \/ CallUnwrapOr
    \/ CallUnwrap
    \/ CallIsSomeFn
    \/ CallIsNoneFn

Spec == Init /\ [][Next]_vars

\* A client of Result<T, E>.
ResultNext ==
    \/ CallOk
    \/ CallErr
    \/ CallResultMap
    \/ CallResultMapErr
    \/ CallResultAndThen
    \/ CallResultOrElse
    \/ CallIsOk
    \/ CallIsErr
    \/ CallResultOk
    \/ CallResultErr
    \/ CallResultUnwrap
    \/ CallResultUnwrapErr
    \/ CallResultExpect

ResultSpec == Init /\ [][ResultNext]_vars

\* ------------------------------------------------------------------- claims
\* What the last call handed back, and which callbacks it ran.
Returned(v) == completion.kind = "return" /\ completion.value = v

ReturnedOption(cls) ==
    /\ completion.kind = "return"
    /\ completion.value.t = "object"
    /\ completion.value.n \in DOMAIN heap
    /\ heap[completion.value.n].cls = cls

\* Strict (structural) equality with the exported None, as toStrictEqual
\* compares: the same class and the same (absent) fields.
ReturnedNoneVariant ==
    /\ ReturnedOption("NoneImpl")
    /\ heap[completion.value.n] = heap[NoneAddr]

InvokedOnce(fn, arg) ==
    /\ Len(calls) = 1
    /\ calls[1].f = fn.f
    /\ calls[1].arg = arg

NotInvoked == calls = <<>>

OnSome == receiver \in DOMAIN heap /\ heap[receiver].cls = "SomeImpl"

OnNone == receiver \in DOMAIN heap /\ heap[receiver].cls = "NoneImpl"

\* C1: Some(v).map(f) is a Some whose payload is f(v), f having been
\* invoked exactly once, on v; None.map(f) is a None-variant Option equal
\* to None, and f has not been invoked.
C1_Map ==
    op = "map" =>
        /\ OnSome =>
              /\ InvokedOnce(args[1], heap[receiver].val)
              /\ ReturnedOption("SomeImpl")
              /\ heap[completion.value.n].val = calls[1].ret
        /\ OnNone => ReturnedNoneVariant /\ NotInvoked

C1_Witness ==
    /\ op = "map"
    /\ OnSome
    /\ args[1] = Fn("succ")
    /\ ReturnedOption("SomeImpl")
    /\ heap[completion.value.n].val # heap[receiver].val

\* C2: Some(v).andThen(f) is the very Option f(v) returned, f having been
\* invoked once on v, with no wrapping added; None.andThen(f) is a
\* None-variant Option and f has not been invoked.
C2_AndThen ==
    op = "andThen" =>
        /\ OnSome =>
              /\ InvokedOnce(args[1], heap[receiver].val)
              /\ Returned(calls[1].ret)
              /\ ReturnedOption("SomeImpl") \/ ReturnedOption("NoneImpl")
        /\ OnNone => ReturnedNoneVariant /\ NotInvoked

C2_Witness ==
    /\ op = "andThen"
    /\ OnSome
    /\ args[1] = Fn("nonZero")
    /\ heap[receiver].val = Num(0)
    /\ Returned(None)

\* C3: on Some(v), match({some, none}) returns some(v) and runs nothing
\* else; on None it never runs some, returns none() when none is a function
\* and none itself when it is not.
C3_Match ==
    op = "match" =>
        /\ OnSome =>
              /\ InvokedOnce(args[1], heap[receiver].val)
              /\ Returned(calls[1].ret)
        /\ (OnNone /\ args[2].t = "function") =>
              /\ InvokedOnce(args[2], Undefined)
              /\ Returned(calls[1].ret)
        /\ (OnNone /\ args[2].t # "function") =>
              /\ NotInvoked
              /\ Returned(args[2])

C3_Witness ==
    /\ op = "match"
    /\ OnNone
    /\ args[1] = Fn("succ")
    /\ args[2] = Fn("zero")
    /\ Len(calls) = 1
    /\ Returned(Num(0))

\* C4: Some(v).unwrap() and Some(v).unwrapOr(def) return v; None.unwrapOr(def)
\* returns def; None.unwrap() returns nothing and throws a ReferenceError
\* with the message "Trying to unwrap None.".
C4_Unwrap ==
    /\ op = "unwrap" =>
          /\ OnSome => Returned(heap[receiver].val)
          /\ OnNone =>
                /\ completion.kind = "throw"
                /\ completion.value = Undefined
                /\ completion.error =
                      [name |-> "ReferenceError",
                       message |-> "Trying to unwrap None."]
    /\ op = "unwrapOr" =>
          /\ OnSome => Returned(heap[receiver].val)
          /\ OnNone => Returned(args[1])

C4_Witness ==
    /\ op = "unwrap"
    /\ OnNone
    /\ completion.kind = "throw"

\* C5: every None-variant Option a call hands back is the one exported
\* None instance.
C5_SingleNone == ReturnedOption("NoneImpl") => Returned(None)

\* C6: inspect(fn) returns the very instance it was called on; on Some(v) it
\* has invoked fn exactly once, with v; on None it has not invoked fn.
C6_Inspect ==
    op = "inspect" =>
        /\ Returned(Ref(receiver))
        /\ OnSome => InvokedOnce(args[1], heap[receiver].val)
        /\ OnNone => NotInvoked

C6_Witness ==
    /\ op = "inspect"
    /\ OnSome
    /\ Len(calls) = 1
    /\ Returned(Ref(receiver))

\* C7: a.or(b) is a itself when a is Some and b when a is None; a.and(b) is
\* b when a is Some and a None-variant Option when a is None, whatever b is.
C7_OrAnd ==
    /\ op = "or" =>
          /\ OnSome => Returned(Ref(receiver))
          /\ OnNone => Returned(args[1])
    /\ op = "and" =>
          /\ OnSome => Returned(args[1])
          /\ OnNone => ReturnedNoneVariant
    /\ op \in {"or", "and"} => NotInvoked

C7_Witness ==
    /\ op = "or"
    /\ OnSome
    /\ args[1] # Ref(receiver)
    /\ heap[args[1].n].cls = "SomeImpl"
    /\ Returned(Ref(receiver))

\* C8: for every Option o exactly one of o.isSome() and o.isNone() is true;
\* o.isSome() is true iff Some built o, o.isNone() iff o is an instance of
\* None; o.type is OptionType.Some iff o.isSome() and OptionType.None
\* otherwise, two distinct tags; isSome(o) and isNone(o) return what
\* o.isSome() and o.isNone() return.
C8_Observers ==
    /\ OptionType.Some # OptionType.None
    /\ \A o \in Options :
          LET some == Option_isSome(Now, o)
              none == Option_isNone(Now, o)
              type == Option_type(Now, o)
          IN  /\ some.kind = "return" /\ none.kind = "return"
              /\ {some.value, none.value} = {Bool(TRUE), Bool(FALSE)}
              /\ some.value = Bool(site[o] = "Some")
              /\ none.value = Bool(site[o] # "Some")
              /\ type.kind = "return"
              /\ type.value = IF some.value = Bool(TRUE) THEN OptionType.Some
                              ELSE OptionType.None
              /\ isSome(Now, Ref(o)) = some
              /\ isNone(Now, Ref(o)) = none
    /\ op = "isSome" => Returned(Bool(site[receiver] = "Some"))
    /\ op = "isNone" => Returned(Bool(site[receiver] # "Some"))
    /\ op = "type" =>
          Returned(IF site[receiver] = "Some" THEN OptionType.Some
                   ELSE OptionType.None)
    /\ op = "isSome()" => Returned(Bool(site[args[1].n] = "Some"))
    /\ op = "isNone()" => Returned(Bool(site[args[1].n] # "Some"))

C8_Witness ==
    /\ op = "isNone()"
    /\ site[args[1].n] = "Some"
    /\ Returned(Bool(FALSE))
    /\ \E o \in Options : site[o] = "NoneImpl.map"

\* C9: Ok(v).andThen(f) is the very Result f(v) returned and Err(e).orElse(g)
\* the very Result g(e) returned; Err(e).andThen(f) has not invoked f and is
\* Err(e); Ok(v).orElse(g) has not invoked g and is Ok(v).
OnOk == receiver \in DOMAIN heap /\ heap[receiver].cls = "Ok"

OnErr == receiver \in DOMAIN heap /\ heap[receiver].cls = "Err"

\* The last call handed back a Result equal to its receiver.
ReturnedSameResult ==
    /\ ReturnedOption(heap[receiver].cls)
    /\ heap[completion.value.n] = heap[receiver]

C9_ShortCircuit ==
    /\ op = "Result.andThen" =>
          /\ OnOk =>
                /\ InvokedOnce(args[1], heap[receiver].val)
                /\ Returned(calls[1].ret)
          /\ OnErr => NotInvoked /\ ReturnedSameResult
    /\ op = "Result.orElse" =>
          /\ OnErr =>
                /\ InvokedOnce(args[1], heap[receiver].val)
                /\ Returned(calls[1].ret)
          /\ OnOk => NotInvoked /\ ReturnedSameResult

C9_Witness ==
    /\ op = "Result.andThen"
    /\ OnErr
    /\ args[1] = Fn("okSucc")
    /\ ReturnedOption("Err")

\* C10: Ok(v).map(f) is Ok(f(v)) and Err(e).map(f) is Err(e), f not
\* applied; Err(e).mapErr(g) is Err(g(e)) and Ok(v).mapErr(g) is Ok(v), g
\* not applied.
C10_MapChannels ==
    /\ op = "Result.map" =>
          /\ OnOk =>
                /\ InvokedOnce(args[1], heap[receiver].val)
                /\ ReturnedOption("Ok")
                /\ heap[completion.value.n].val = calls[1].ret
          /\ OnErr => NotInvoked /\ ReturnedSameResult
    /\ op = "Result.mapErr" =>
          /\ OnErr =>
                /\ InvokedOnce(args[1], heap[receiver].val)
                /\ ReturnedOption("Err")
                /\ heap[completion.value.n].val = calls[1].ret
          /\ OnOk => NotInvoked /\ ReturnedSameResult

C10_Witness ==
    /\ op = "Result.mapErr"
    /\ OnErr
    /\ args[1] = Fn("succ")
    /\ ReturnedOption("Err")
    /\ heap[completion.value.n].val # heap[receiver].val

\* C11: Ok(v).unwrap() and Ok(v).expect(msg) return v and Err(e).unwrapErr()
\* returns e; Err(e).unwrap() and Ok(v).unwrapErr() fail; Err(e).expect(msg)
\* fails with the message msg, then ": ", then e as a string.
Failed == completion.kind = "throw" /\ completion.value = Undefined

C11_Extraction ==
    /\ op = "Result.unwrap" =>
          /\ OnOk => Returned(heap[receiver].val)
          /\ OnErr => Failed
    /\ op = "Result.unwrapErr" =>
          /\ OnErr => Returned(heap[receiver].val)
          /\ OnOk => Failed
    /\ op = "Result.expect" =>
          /\ OnOk => Returned(heap[receiver].val)
          /\ OnErr =>
                /\ Failed
                /\ completion.error.message =
                      args[1].f \o ": " \o Stringify(heap[receiver].val)
                /\ (args[1] = Str("Expected a value")
                        /\ heap[receiver].val = Num(1)) =>
                      completion.error.message = "Expected a value: 1"

C11_Witness ==
    /\ op = "Result.expect"
    /\ OnErr
    /\ Failed
    /\ completion.error.message = "Expected a value: 1"

\* C12: Ok(v).ok() is Some(v) and Ok(v).err() is None; Err(e).ok() is None
\* and Err(e).err() is Some(e); so r.ok().isSome() is what r.isOk() is and
\* r.err().isSome() is what r.isErr() is.
ReturnedSome(v) ==
    /\ ReturnedOption("SomeImpl")
    /\ heap[completion.value.n].val = v

C12_ToOption ==
    /\ op = "Result.ok" =>
          /\ OnOk => ReturnedSome(heap[receiver].val)
          /\ OnErr => ReturnedNoneVariant
          /\ completion.value.n \in Options
          /\ Option_isSome(Now, completion.value.n) = Result_isOk(Now, receiver)
    /\ op = "Result.err" =>
          /\ OnErr => ReturnedSome(heap[receiver].val)
          /\ OnOk => ReturnedNoneVariant
          /\ completion.value.n \in Options
          /\ Option_isSome(Now, completion.value.n) = Result_isErr(Now, receiver)

C12_Witness ==
    /\ op = "Result.err"
    /\ OnErr
    /\ ReturnedSome(Num(1))
    /\ Option_isSome(Now, completion.value.n).value = Bool(TRUE)

\* C13: for every Option opt, opt.map(x => x) has the variant and the
\* payload of opt.
C13_FunctorIdentity ==
    (op = "map" /\ args[1] = Fn("id")) =>
        /\ ReturnedOption(heap[receiver].cls)
        /\ heap[completion.value.n].val = heap[receiver].val

C13_Witness ==
    /\ op = "map"
    /\ args[1] = Fn("id")
    /\ OnSome
    /\ ReturnedSome(Num(1))
    /\ completion.value # Ref(receiver)

\* C14: no call, a failing unwrap included, changes an Option that exists:
\* every instance keeps the variant and the payload it was constructed
\* with, whether it was the receiver, an argument or neither.
C14_Immutable ==
    [][\A a \in DOMAIN heap : a \in DOMAIN heap' /\ heap'[a] = heap[a]]_vars

C14_Witness ==
    /\ op = "unwrap"
    /\ completion.kind = "throw"
    /\ receiver # NoneAddr
    /\ \E a \in Options : heap[a].cls = "SomeImpl" /\ heap[a].val = Num(1)

====
